---- MODULE Spec2Model ----
(***************************************************************************)
(* Model of the hydra logger package: Setup / MustSetup, the logrus        *)
(* emission path of one record (level gate, hooks, console write) and the  *)
(* Elasticsearch hook ESHook.Fire with its bounded retry loop.             *)
(*                                                                         *)
(* The repository holds two copies of the package: logger/logger.go (the   *)
(* one with Retries, the 5 s context and the 100 ms backoff) and           *)
(* src/logger/logger.go (one Index call, errors returned).  pkg says which *)
(* copy the process is linked with.                                        *)
(***************************************************************************)
EXTENDS Integers, Sequences, FiniteSets, TLC

\* ---------------------------------------------------------------- bounds
MaxRetries == 3        \* largest configured elasticsearch.retries explored
MaxDepth   == 7        \* deepest working directory explored (root = 0)

\* ------------------------------------------------------------- constants
\* logrus levels: Panic=0 Fatal=1 Error=2 Warn=3 Info=4 Debug=5 Trace=6
InfoLevel == 4
AllLevels == 0..6

Packages == {"logger", "src/logger"}

NoLogger == [nil |-> TRUE]

\* ------------------------------------------------------------- inputs
\* cfg.Level strings handed to logrus.ParseLevel
LevelInputs   == {"panic", "warn", "warning", "info", "trace", "verbose"}
FormatInputs  == {"json", "text", "xml"}
\* elasticsearch.url values; the second one has no scheme and does not parse
URLInputs     == {"http://localhost:9200", "://sink"}
IndexInputs   == {"", "app-logs"}
\* raw elasticsearch.retries values: an integer, or text that is no integer
RetriesInputs == {[int |-> TRUE, n |-> k] : k \in -1..MaxRetries}
                   \cup {[int |-> FALSE, n |-> 0]}
RawConfigs    == [level : LevelInputs, format : FormatInputs,
                  enabled : BOOLEAN, url : URLInputs, index : IndexInputs,
                  retries : RetriesInputs]
\* kinds of caller fields of a record:
\*   "plain"  every value is JSON-encodable
\*   "chan"   some value has no JSON encoding (channel, NaN, ...)
\*   "err"    some value is an error whose own JSON encoding fails
DataKinds     == {"plain", "chan", "err"}
\* HTTP status codes a sink answers with, and response bodies
Statuses      == {199, 200, 299, 300, 500}
Bodies        == {"", "{error}"}

VARIABLES
  pkg,        \* which copy of the package the process is linked with
  pc,         \* "running" | "exited" (os.Exit) | "panicked"
  Log,        \* package-level logger: NoLogger or [level, formatter, hooks]
  lastSetup,  \* what the last Setup call did
  entry,      \* the record being emitted and the position of its handlers
  load,       \* one run of Setup from the files and the environment it reads
  prog,       \* position and standard output of func main
  other,      \* the record of a second goroutine, parked by the scheduler
  pay         \* one record and the payload Fire builds from it

\* what the steps of the logger leave alone
aux == <<load, prog, other, pay>>

vars == <<pkg, pc, Log, lastSetup, entry, load, prog, other, pay>>

\* ------------------------------------------------------------- helpers
\* strings.ToLower on the level strings explored
ToLower(s) ==
  CASE s = "WARN" -> "warn"
    [] s = "Info" -> "info"
    [] OTHER      -> s

\* logrus.ParseLevel: switch strings.ToLower(lvl) over the eight accepted
\* names, anything else is an error
ParseLevel(s) ==
  LET l == ToLower(s) IN
  CASE l = "panic"   -> [ok |-> TRUE, level |-> 0]
    [] l = "fatal"   -> [ok |-> TRUE, level |-> 1]
    [] l = "error"   -> [ok |-> TRUE, level |-> 2]
    [] l = "warn"    -> [ok |-> TRUE, level |-> 3]
    [] l = "warning" -> [ok |-> TRUE, level |-> 3]
    [] l = "info"    -> [ok |-> TRUE, level |-> 4]
    [] l = "debug"   -> [ok |-> TRUE, level |-> 5]
    [] l = "trace"   -> [ok |-> TRUE, level |-> 6]
    [] OTHER         -> [ok |-> FALSE, level |-> 0]

PanicLevel == ParseLevel("panic").level
FatalLevel == ParseLevel("fatal").level

\* mutant of ResolveLevel: no fallback, the zero Level that ParseLevel
\* returns with its error is used
ResolveLevel_NoFallback(s) == ParseLevel(s).level

\* level, err := logrus.ParseLevel(cfg.Level); if err != nil { level = Info }
ResolveLevel(s) ==
  IF ParseLevel(s).ok THEN ParseLevel(s).level ELSE InfoLevel

\* switch cfg.ConsoleFormat { case "json": JSON; default: Text }
ResolveFormatter(f) == IF f = "json" THEN "json" ELSE "text"

\* v.Unmarshal(&cfg): the retries value must decode into an int
UnmarshalOk(raw) == raw.retries.int

\* elasticsearch.NewClient(esCfg): fails when the address does not parse
NewClientOk(url) == url # "://sink"

\* logger.IsLevelEnabled(level): logger.level >= level
IsLevelEnabled(logger, lvl) == logger.level >= lvl

\* json.Marshal(data) in Fire: fails on a value without JSON encoding
MarshalOk(kind) == kind = "plain"

\* Formatter.Format(entry): the text formatter prints every value; the JSON
\* formatter turns error values into strings and then encodes the fields
FormatOk(formatter, kind) ==
  IF formatter = "json" THEN kind # "chan" ELSE TRUE

\* mutants of Attempts: Retries counted as retries after the first attempt;
\* no minimum of one attempt
Attempts_ExtraRetries(retries) == IF retries > 0 THEN retries + 1 ELSE 1
Attempts_NoMinimum(retries) == retries

\* attempts := 1; if h.Retries > 0 { attempts = h.Retries }
Attempts(retries) == IF retries > 0 THEN retries ELSE 1

\* index := h.Index; if index == "" { index = "logs" }
IndexName(h) == IF h.Index = "" THEN "logs" ELSE h.Index

\* res.StatusCode < 200 || res.StatusCode >= 300
Non2xx(status) == status < 200 \/ status >= 300

\* what one Client.Index call returns: a transport error or a response
TransportError == [err |-> TRUE, status |-> 0, body |-> ""]
Responses == [err : {FALSE}, status : Statuses, body : Bodies]

IdleEntry ==
  [phase |-> "idle", level |-> InfoLevel, kind |-> "plain",
   fired |-> 0, index |-> "", i |-> 0, attempts |-> 0, expired |-> FALSE,
   calls |-> <<>>, outs |-> <<>>, checks |-> <<>>, diags |-> <<>>,
   sleeps |-> 0, ret |-> "none", lines |-> 0]

NoSetup == [called |-> FALSE, err |-> FALSE, clientErr |-> FALSE]

\* values of the variables a specification does not use
NoLoad == [done |-> FALSE]
NoProg == [at |-> "none", stdout |-> <<>>]
NoPay  == [done |-> FALSE]

Init ==
  /\ pkg \in Packages
  /\ pc = "running"
  /\ Log = NoLogger
  /\ lastSetup = NoSetup
  /\ entry = IdleEntry
  /\ load = NoLoad
  /\ prog = NoProg
  /\ other = IdleEntry
  /\ pay = NoPay

\* ------------------------------------------------------------- Setup
\* The logger Setup builds from a decoded configuration, before the hook:
\* formatter, level, output to os.Stdout (logrus.New() writes to os.Stderr).
\* enabled records cfg.Elasticsearch.Enabled of the configuration it was
\* built from (history only, logrus does not keep it).
NewLogger_DefaultOutput(raw) ==
  [level |-> ResolveLevel(raw.level),
   formatter |-> ResolveFormatter(raw.format),
   out |-> "stderr",
   hooks |-> <<>>,
   enabled |-> raw.enabled]

NewLogger(raw) ==
  [level |-> ResolveLevel(raw.level),
   formatter |-> ResolveFormatter(raw.format),
   out |-> "stdout",
   hooks |-> <<>>,
   enabled |-> raw.enabled]

\* mutants of Setup: the hook is added although the client could not be
\* constructed; the hook is added without looking at Enabled
Setup_HookOnClientError(raw) ==
  IF ~UnmarshalOk(raw)
  THEN [err |-> TRUE, clientErr |-> FALSE, log |-> NoLogger]
  ELSE IF raw.enabled
  THEN [err |-> FALSE, clientErr |-> ~NewClientOk(raw.url),
        log |-> [NewLogger(raw) EXCEPT !.hooks =
                   <<[Index |-> raw.index, Retries |-> raw.retries.n]>>]]
  ELSE [err |-> FALSE, clientErr |-> FALSE, log |-> NewLogger(raw)]

Setup_HookAlways(raw) ==
  IF ~UnmarshalOk(raw)
  THEN [err |-> TRUE, clientErr |-> FALSE, log |-> NoLogger]
  ELSE IF NewClientOk(raw.url)
  THEN [err |-> FALSE, clientErr |-> FALSE,
        log |-> [NewLogger(raw) EXCEPT !.hooks =
                   <<[Index |-> raw.index, Retries |-> raw.retries.n]>>]]
  ELSE [err |-> FALSE, clientErr |-> raw.enabled, log |-> NewLogger(raw)]

\* mutant of Setup: a client construction failure is returned as an error
Setup_ClientErrorFatal(raw) ==
  IF ~UnmarshalOk(raw)
  THEN [err |-> TRUE, clientErr |-> FALSE, log |-> NoLogger]
  ELSE IF raw.enabled /\ ~NewClientOk(raw.url)
  THEN [err |-> TRUE, clientErr |-> TRUE, log |-> NoLogger]
  ELSE IF raw.enabled
  THEN [err |-> FALSE, clientErr |-> FALSE,
        log |-> [NewLogger(raw) EXCEPT !.hooks =
                   <<[Index |-> raw.index, Retries |-> raw.retries.n]>>]]
  ELSE [err |-> FALSE, clientErr |-> FALSE, log |-> NewLogger(raw)]

\* logger/logger.go Setup: a client construction failure is a warning
Setup(raw) ==
  IF ~UnmarshalOk(raw)
  THEN [err |-> TRUE, clientErr |-> FALSE, log |-> NoLogger]
  ELSE IF raw.enabled /\ NewClientOk(raw.url)
  THEN [err |-> FALSE, clientErr |-> FALSE,
        log |-> [NewLogger(raw) EXCEPT !.hooks =
                   <<[Index |-> raw.index, Retries |-> raw.retries.n]>>]]
  ELSE [err |-> FALSE, clientErr |-> raw.enabled, log |-> NewLogger(raw)]

\* src/logger/logger.go Setup: a client construction failure is returned,
\* the hook has no Retries
SetupV1(raw) ==
  IF ~UnmarshalOk(raw)
  THEN [err |-> TRUE, clientErr |-> FALSE, log |-> NoLogger]
  ELSE IF raw.enabled /\ ~NewClientOk(raw.url)
  THEN [err |-> TRUE, clientErr |-> TRUE, log |-> NoLogger]
  ELSE IF raw.enabled
  THEN [err |-> FALSE, clientErr |-> FALSE,
        log |-> [NewLogger(raw) EXCEPT !.hooks = <<[Index |-> raw.index]>>]]
  ELSE [err |-> FALSE, clientErr |-> FALSE, log |-> NewLogger(raw)]

SetupOf(raw) == IF pkg = "logger" THEN Setup(raw) ELSE SetupV1(raw)

\* mutant of CallSetup: Log is assigned as soon as the logger is built,
\* before the hook is decided
CallSetup_AssignEarly(raw) ==
  /\ pc = "running"
  /\ entry.phase = "idle"
  /\ LET r == SetupOf(raw) IN
       /\ Log' = IF ~UnmarshalOk(raw) THEN Log
                 ELSE IF r.err THEN NewLogger(raw) ELSE r.log
       /\ lastSetup' = [called |-> TRUE, err |-> r.err,
                        clientErr |-> r.clientErr]
  /\ UNCHANGED <<pkg, pc, entry, aux>>

\* a call of Setup whose caller goes on whatever it returns
CallSetup(raw) ==
  /\ pc = "running"
  /\ entry.phase = "idle"
  /\ LET r == SetupOf(raw) IN
       /\ Log' = IF r.err THEN Log ELSE r.log
       /\ lastSetup' = [called |-> TRUE, err |-> r.err,
                        clientErr |-> r.clientErr]
  /\ UNCHANGED <<pkg, pc, entry, aux>>

\* MustSetup: Setup, and os.Exit(1) when it returns an error
MustSetup(raw) ==
  /\ pc = "running"
  /\ entry.phase = "idle"
  /\ LET r == SetupOf(raw) IN
       /\ Log' = IF r.err THEN Log ELSE r.log
       /\ lastSetup' = [called |-> TRUE, err |-> r.err,
                        clientErr |-> r.clientErr]
       /\ pc' = IF r.err THEN "exited" ELSE pc
  /\ UNCHANGED <<pkg, entry, aux>>

\* ------------------------------------------------------------- emission
\* mutant of Levels: the hook registers for error and above only
Levels_ErrorAndAbove(h) == 0..2

\* func (h *ESHook) Levels() []logrus.Level { return logrus.AllLevels }
Levels(h) == AllLevels

\* Log.WithFields(fields).<Level>(msg): logrus drops the record when its
\* level is not enabled; otherwise the hooks are fired and then the line is
\* written (src/main.go is the call site).
Emit(lvl, kind) ==
  /\ pc = "running"
  /\ Log # NoLogger
  /\ entry.phase = "idle"
  /\ entry' = [IdleEntry EXCEPT
                 !.level = lvl, !.kind = kind,
                 !.phase = IF ~IsLevelEnabled(Log, lvl) THEN "done"
                           ELSE IF /\ Len(Log.hooks) > 0
                                   /\ lvl \in Levels(Log.hooks[1])
                                THEN "fire"
                           ELSE "fired"]
  /\ UNCHANGED <<pkg, pc, Log, lastSetup, aux>>

Hook == Log.hooks[1]

\* stderr lines of Fire
MarshalDiag == [msg |-> "failed to marshal log entry for ES"]
AttemptDiag(n, of) == [msg |-> "ES index attempt failed", attempt |-> n,
                       attempts |-> of]
StatusDiag(res, n, of) == [msg |-> "ES responded with status",
                           status |-> res.status, attempt |-> n,
                           attempts |-> of, body |-> res.body]

\* ---- logger/logger.go ESHook.Fire
\* payload, json.Marshal, index name, context with timeout, attempts
Fire_Marshal ==
  /\ pc = "running"
  /\ pkg = "logger"
  /\ entry.phase = "fire"
  /\ entry' = IF ~MarshalOk(entry.kind)
              THEN [entry EXCEPT !.fired = @ + 1,
                                 !.diags = Append(@, MarshalDiag),
                                 !.ret = "nil", !.phase = "fired"]
              ELSE [entry EXCEPT !.fired = @ + 1,
                                 !.index = IndexName(Hook),
                                 !.attempts = Attempts(Hook.Retries),
                                 !.i = 0, !.phase = "loop"]
  /\ UNCHANGED <<pkg, pc, Log, lastSetup, aux>>

\* for i := 0; i < attempts; i++ { res, err := h.Client.Index(...)
Fire_Index ==
  /\ pc = "running"
  /\ pkg = "logger"
  /\ entry.phase = "loop"
  /\ entry.i < entry.attempts
  /\ entry' = [entry EXCEPT !.calls = Append(@, entry.expired),
                            !.phase = "inflight"]
  /\ UNCHANGED <<pkg, pc, Log, lastSetup, aux>>

\* the loop condition fails: return nil
Fire_LoopEnd ==
  /\ pc = "running"
  /\ pkg = "logger"
  /\ entry.phase = "loop"
  /\ ~(entry.i < entry.attempts)
  /\ entry' = [entry EXCEPT !.ret = "nil", !.phase = "fired"]
  /\ UNCHANGED <<pkg, pc, Log, lastSetup, aux>>

\* mutants of Fire_Result: a status outside 200..299 is handled like a
\* transport error; the break after a response is missing
Fire_Result_RetryOnStatus(res) ==
  /\ pc = "running"
  /\ pkg = "logger"
  /\ entry.phase = "inflight"
  /\ entry.expired => res.err
  /\ entry' =
       IF res.err
       THEN [entry EXCEPT !.outs = Append(@, res),
               !.diags = Append(@, AttemptDiag(entry.i + 1, entry.attempts)),
               !.phase = "failed"]
       ELSE IF Non2xx(res.status)
       THEN [entry EXCEPT !.outs = Append(@, res),
               !.diags = Append(@, StatusDiag(res, entry.i + 1,
                                              entry.attempts)),
               !.phase = "failed"]
       ELSE [entry EXCEPT !.outs = Append(@, res),
               !.ret = "nil", !.phase = "fired"]
  /\ UNCHANGED <<pkg, pc, Log, lastSetup, aux>>

Fire_Result_NoBreak(res) ==
  /\ pc = "running"
  /\ pkg = "logger"
  /\ entry.phase = "inflight"
  /\ entry.expired => res.err
  /\ entry' =
       IF res.err
       THEN [entry EXCEPT !.outs = Append(@, res),
               !.diags = Append(@, AttemptDiag(entry.i + 1, entry.attempts)),
               !.phase = "failed"]
       ELSE IF Non2xx(res.status)
       THEN [entry EXCEPT !.outs = Append(@, res),
               !.diags = Append(@, StatusDiag(res, entry.i + 1,
                                              entry.attempts)),
               !.i = @ + 1, !.phase = "loop"]
       ELSE [entry EXCEPT !.outs = Append(@, res),
               !.i = @ + 1, !.phase = "loop"]
  /\ UNCHANGED <<pkg, pc, Log, lastSetup, aux>>

\* Client.Index returns.  With the context expired the call has failed.
\* err != nil: diagnostic; a response: read the body, warn on a status
\* outside 200..299, break and return nil.
Fire_Result(res) ==
  /\ pc = "running"
  /\ pkg = "logger"
  /\ entry.phase = "inflight"
  /\ entry.expired => res.err
  /\ entry' =
       IF res.err
       THEN [entry EXCEPT !.outs = Append(@, res),
               !.diags = Append(@, AttemptDiag(entry.i + 1, entry.attempts)),
               !.phase = "failed"]
       ELSE IF Non2xx(res.status)
       THEN [entry EXCEPT !.outs = Append(@, res),
               !.diags = Append(@, StatusDiag(res, entry.i + 1,
                                              entry.attempts)),
               !.ret = "nil", !.phase = "fired"]
       ELSE [entry EXCEPT !.outs = Append(@, res),
               !.ret = "nil", !.phase = "fired"]
  /\ UNCHANGED <<pkg, pc, Log, lastSetup, aux>>

\* mutant of Fire_CheckCtx: after a failed attempt Fire waits for the
\* context to be done
Fire_CheckCtx_BlockUntilExpiry ==
  /\ pc = "running"
  /\ pkg = "logger"
  /\ entry.phase = "failed"
  /\ entry.expired
  /\ entry' = [entry EXCEPT !.checks = Append(@, TRUE),
                            !.ret = "nil", !.phase = "fired"]
  /\ UNCHANGED <<pkg, pc, Log, lastSetup, aux>>

\* mutant of Fire_CheckCtx: the context is not looked at before the sleep
Fire_CheckCtx_NoBreak ==
  /\ pc = "running"
  /\ pkg = "logger"
  /\ entry.phase = "failed"
  /\ entry' = [entry EXCEPT !.checks = Append(@, entry.expired),
                            !.phase = "sleep"]
  /\ UNCHANGED <<pkg, pc, Log, lastSetup, aux>>

\* if ctx.Err() != nil { break }, else go to sleep
Fire_CheckCtx ==
  /\ pc = "running"
  /\ pkg = "logger"
  /\ entry.phase = "failed"
  /\ entry' = IF entry.expired
              THEN [entry EXCEPT !.checks = Append(@, TRUE),
                                 !.ret = "nil", !.phase = "fired"]
              ELSE [entry EXCEPT !.checks = Append(@, FALSE),
                                 !.phase = "sleep"]
  /\ UNCHANGED <<pkg, pc, Log, lastSetup, aux>>

\* mutant of Fire_Sleep: the loop counter is shared by the goroutines that
\* are inside Fire
Fire_Sleep_SharedCounter ==
  /\ pc = "running"
  /\ pkg = "logger"
  /\ entry.phase = "sleep"
  /\ entry' = [entry EXCEPT !.sleeps = @ + 1, !.i = @ + 1, !.phase = "loop"]
  /\ other' = IF other.phase \in {"loop", "inflight", "failed", "sleep"}
              THEN [other EXCEPT !.i = @ + 1]
              ELSE other
  /\ UNCHANGED <<pkg, pc, Log, lastSetup, load, prog, pay>>

\* time.Sleep(100 * time.Millisecond); continue   (i++)
Fire_Sleep ==
  /\ pc = "running"
  /\ pkg = "logger"
  /\ entry.phase = "sleep"
  /\ entry' = [entry EXCEPT !.sleeps = @ + 1, !.i = @ + 1, !.phase = "loop"]
  /\ UNCHANGED <<pkg, pc, Log, lastSetup, aux>>

\* the 5 seconds of context.WithTimeout pass while Fire is in its loop
CtxTimeout ==
  /\ pc = "running"
  /\ pkg = "logger"
  /\ entry.phase \in {"loop", "inflight", "failed", "sleep"}
  /\ ~entry.expired
  /\ entry' = [entry EXCEPT !.expired = TRUE]
  /\ UNCHANGED <<pkg, pc, Log, lastSetup, aux>>

\* ---- src/logger/logger.go ESHook.Fire
\* payload, json.Marshal (error returned), then the one Client.Index call
FireV1_Marshal ==
  /\ pc = "running"
  /\ pkg = "src/logger"
  /\ entry.phase = "fire"
  /\ entry' = IF ~MarshalOk(entry.kind)
              THEN [entry EXCEPT !.fired = @ + 1,
                                 !.ret = "err", !.phase = "fired"]
              ELSE [entry EXCEPT !.fired = @ + 1,
                                 !.index = IndexName(Hook),
                                 !.calls = Append(@, FALSE),
                                 !.phase = "inflight"]
  /\ UNCHANGED <<pkg, pc, Log, lastSetup, aux>>

\* Client.Index returns: the error is returned, a response is closed
FireV1_Result(res) ==
  /\ pc = "running"
  /\ pkg = "src/logger"
  /\ entry.phase = "inflight"
  /\ entry' = [entry EXCEPT !.outs = Append(@, res),
                            !.ret = IF res.err THEN "err" ELSE "nil",
                            !.phase = "fired"]
  /\ UNCHANGED <<pkg, pc, Log, lastSetup, aux>>

\* ---- logrus, after the hooks: a hook error is printed to stderr, then
\* the formatted line is written to the output (os.Stdout) unless the
\* formatter fails
HookErrDiag == [msg |-> "Failed to fire hook"]
FormatDiag  == [msg |-> "Failed to obtain reader"]

Write ==
  /\ pc = "running"
  /\ entry.phase = "fired"
  /\ LET d1 == IF entry.ret = "err" THEN Append(entry.diags, HookErrDiag)
               ELSE entry.diags
         ok == FormatOk(Log.formatter, entry.kind)
     IN /\ entry' = [entry EXCEPT
                       !.diags = IF ok THEN d1 ELSE Append(d1, FormatDiag),
                       !.lines = IF ok /\ Log.out = "stdout" THEN @ + 1
                                 ELSE @,
                       !.phase = "done"]
  /\ UNCHANGED <<pkg, pc, Log, lastSetup, aux>>

\* the logging call is over: Panic panics with the entry (only after it was
\* logged), Fatal calls os.Exit(1), every other level returns to the caller
Return ==
  /\ pc = "running"
  /\ entry.phase = "done"
  /\ pc' = IF entry.level = PanicLevel THEN "panicked"
           ELSE IF entry.level = FatalLevel THEN "exited"
           ELSE pc
  /\ entry' = IdleEntry
  /\ UNCHANGED <<pkg, Log, lastSetup, aux>>

Next ==
  \/ \E raw \in RawConfigs : CallSetup(raw)
  \/ \E raw \in RawConfigs : MustSetup(raw)
  \/ \E lvl \in AllLevels, kind \in DataKinds : Emit(lvl, kind)
  \/ Fire_Marshal
  \/ Fire_Index
  \/ Fire_LoopEnd
  \/ \E res \in Responses \cup {TransportError} : Fire_Result(res)
  \/ Fire_CheckCtx
  \/ Fire_Sleep
  \/ CtxTimeout
  \/ FireV1_Marshal
  \/ \E res \in Responses \cup {TransportError} : FireV1_Result(res)
  \/ Write
  \/ Return

Spec == Init /\ [][Next]_vars

\* ------------------------------------------------- configuration loading
\* A configuration key is the sequence of its path segments.
KLevel   == <<"level">>
KFormat  == <<"console_format">>
KEnabled == <<"elasticsearch", "enabled">>
KURL     == <<"elasticsearch", "url">>
KIndex   == <<"elasticsearch", "index">>
KRetries == <<"elasticsearch", "retries">>
Keys     == {KLevel, KFormat, KEnabled, KURL, KIndex, KRetries}

\* v.SetDefault(...) of logger/logger.go and of src/logger/logger.go
Defaults ==
  [k \in Keys |->
     CASE k = KLevel   -> "info"
       [] k = KFormat  -> "text"
       [] k = KEnabled -> FALSE
       [] k = KURL     -> "http://localhost:9200"
       [] k = KIndex   -> "logs"
       [] k = KRetries -> [int |-> TRUE, n |-> 1]]

DefaultsV1 == [k \in Keys \ {KRetries} |-> Defaults[k]]

\* the zero value Unmarshal leaves in a field no source has a key for
ZeroValue(k) ==
  CASE k = KEnabled -> FALSE
    [] k = KRetries -> [int |-> TRUE, n |-> 0]
    [] OTHER        -> ""

\* strings.ToUpper on the segments of the keys
ToUpper(seg) ==
  CASE seg = "level"          -> "LEVEL"
    [] seg = "console_format" -> "CONSOLE_FORMAT"
    [] seg = "elasticsearch"  -> "ELASTICSEARCH"
    [] seg = "enabled"        -> "ENABLED"
    [] seg = "url"            -> "URL"
    [] seg = "index"          -> "INDEX"
    [] seg = "retries"        -> "RETRIES"
    [] seg = "logger"         -> "LOGGER"
    [] OTHER                  -> seg

\* The name of an environment variable is the sequence of its pieces, the
\* separators included.  key with the segments in upper case, sep between
RECURSIVE JoinUpper(_, _)
JoinUpper(key, sep) ==
  IF Len(key) = 1 THEN <<ToUpper(key[1])>>
  ELSE <<ToUpper(key[1]), sep>> \o JoinUpper(Tail(key), sep)

\* the name LOGGER_<KEY> with the dots of the key turned into underscores,
\* as a deployment sets it (LOGGER_LEVEL, LOGGER_ELASTICSEARCH_URL)
UnderscoreEnvName(key) == <<"LOGGER", "_">> \o JoinUpper(key, "_")

\* v.SetEnvPrefix("LOGGER"); v.AutomaticEnv(): viper looks a key up under
\* strings.ToUpper(prefix + "_" + key); no key replacer is set, so the dots
\* of a nested key stay
AutoEnvName(key) == <<"LOGGER", "_">> \o JoinUpper(key, ".")

\* v.BindEnv(key, name): the names bound to a key by hand
BoundEnvNames ==
  [key \in Keys |->
     IF key = KRetries THEN {<<"ELASTIC", "_", "RETRIES">>} ELSE {}]
BoundEnvNamesV1 == [key \in Keys |-> {}]

HasEnv(env, name) == \E e \in env : e.name = name
EnvValue(env, name) == (CHOOSE e \in env : e.name = name).val

\* viper's find(): the automatic environment name, the bound names, the
\* configuration file, the default; Unmarshal decodes the keys that a
\* default, the file or a binding knows and leaves the zero value elsewhere
Resolve(key, env, file, defaults, bound) ==
  IF key \notin (DOMAIN defaults \cup DOMAIN file) /\ bound[key] = {}
  THEN ZeroValue(key)
  ELSE IF HasEnv(env, AutoEnvName(key)) THEN EnvValue(env, AutoEnvName(key))
  ELSE IF \E n \in bound[key] : HasEnv(env, n)
  THEN EnvValue(env, CHOOSE n \in bound[key] : HasEnv(env, n))
  ELSE IF key \in DOMAIN file THEN file[key]
  ELSE IF key \in DOMAIN defaults THEN defaults[key]
  ELSE ZeroValue(key)

\* the settings v.Unmarshal(&cfg) decodes, field by field
ResolveAll(env, file, defaults, bound) ==
  [level   |-> Resolve(KLevel, env, file, defaults, bound),
   format  |-> Resolve(KFormat, env, file, defaults, bound),
   enabled |-> Resolve(KEnabled, env, file, defaults, bound),
   url     |-> Resolve(KURL, env, file, defaults, bound),
   index   |-> Resolve(KIndex, env, file, defaults, bound),
   retries |-> Resolve(KRetries, env, file, defaults, bound)]

\* ---- files.  A directory is its depth below the root "/" (depth 0); a
\* file is [dir, name]; fs holds the files that exist, ok when they parse.
NoFile == [dir |-> -1, name |-> ""]
Exists(fs, dir, name) == \E f \in fs : f.dir = dir /\ f.name = name
Parses(fs, dir, name) == \E f \in fs : f.dir = dir /\ f.name = name /\ f.ok

\* v.SetConfigName("logger"); v.AddConfigPath("."): viper takes the first
\* logger.<ext> that exists in the current directory, in the order of its
\* supported extensions (json before yaml before yml)
PrimaryNames == <<"logger.json", "logger.yaml", "logger.yml">>

\* candidates of the fallback search, in the order they are tried
Candidates == <<"logger.example.yaml", "logger.yaml", "logger.yml">>

\* for i := 0; i < 6 && ...: the number of directories the search visits
SearchLevels == 6

RECURSIVE FirstExisting(_, _, _, _)
FirstExisting(fs, dir, names, k) ==
  IF k > Len(names) THEN NoFile
  ELSE IF Exists(fs, dir, names[k]) THEN [dir |-> dir, name |-> names[k]]
  ELSE FirstExisting(fs, dir, names, k + 1)

\* v.ReadInConfig() before the search: the file it loads, NoFile on error
ReadInConfig(configPath, cwd, fs) ==
  LET f == IF configPath = ""
           THEN FirstExisting(fs, cwd, PrimaryNames, 1)
           ELSE [dir |-> cwd, name |-> configPath]
  IN IF f # NoFile /\ Parses(fs, f.dir, f.name) THEN f ELSE NoFile

\* mutant of FirstParsing: the first candidate that exists is taken, whether
\* it parses or not
RECURSIVE FirstParsing_NoSkip(_, _, _)
FirstParsing_NoSkip(fs, dir, k) ==
  IF k > Len(Candidates) THEN NoFile
  ELSE IF Exists(fs, dir, Candidates[k])
  THEN [dir |-> dir, name |-> Candidates[k]]
  ELSE FirstParsing_NoSkip(fs, dir, k + 1)

\* for _, cand := range candidates: the first candidate of dir that exists
\* (os.Stat) and that ReadInConfig parses
RECURSIVE FirstParsing(_, _, _)
FirstParsing(fs, dir, k) ==
  IF k > Len(Candidates) THEN NoFile
  ELSE IF Parses(fs, dir, Candidates[k])
  THEN [dir |-> dir, name |-> Candidates[k]]
  ELSE FirstParsing(fs, dir, k + 1)

\* mutant of Search: the root directory is searched as well
RECURSIVE Search_IntoRoot(_, _, _)
Search_IntoRoot(fs, dir, i) ==
  IF ~(i < SearchLevels /\ dir >= 0) THEN NoFile
  ELSE IF FirstParsing(fs, dir, 1) # NoFile THEN FirstParsing(fs, dir, 1)
  ELSE Search_IntoRoot(fs, dir - 1, i + 1)

\* the loop over the ancestors: i < 6 && dir != "." && dir != "/"
RECURSIVE Search(_, _, _)
Search(fs, dir, i) ==
  IF ~(i < SearchLevels /\ dir # 0) THEN NoFile
  ELSE IF FirstParsing(fs, dir, 1) # NoFile THEN FirstParsing(fs, dir, 1)
  ELSE Search(fs, dir - 1, i + 1)

\* logger/logger.go lines 54-98: the file whose values are loaded, and
\* whether "no configuration file found" is written to stderr
LoadConfig(configPath, cwd, fs) ==
  LET first == ReadInConfig(configPath, cwd, fs)
      found == IF first # NoFile THEN first ELSE Search(fs, cwd, 0)
  IN [source |-> found, warn |-> found = NoFile]

\* src/logger/logger.go lines 48-60: no search
LoadConfigV1(configPath, cwd, fs) ==
  LET first == ReadInConfig(configPath, cwd, fs)
  IN [source |-> first, warn |-> first = NoFile]

\* ---- inputs of a Setup run: the path argument, the working directory,
\* the files, what the files hold, the environment
CfgPaths  == {"", "conf.yaml"}
FileNames == {"logger.json", "logger.yaml", "logger.yml",
              "logger.example.yaml"}
FilesAt(cwd) ==
  [dir : 0..cwd, name : FileNames, ok : BOOLEAN]
    \cup [dir : {cwd}, name : {"conf.yaml"}, ok : BOOLEAN]
UpTo2(S) == {{}} \cup {{x} : x \in S} \cup {{x, y} : x \in S, y \in S}
FileSystems(cwd) ==
  {fs \in UpTo2(FilesAt(cwd)) :
     \A f \in fs, g \in fs : (f.dir = g.dir /\ f.name = g.name) => f = g}
\* what a file that parses holds, by its name
ContentOf(name) ==
  CASE name = "logger.example.yaml" ->
         (KLevel :> "warn") @@ (KFormat :> "json")
    [] name = "logger.yaml" ->
         (KLevel :> "verbose") @@ (KEnabled :> TRUE)
           @@ (KIndex :> "app-logs") @@ (KRetries :> [int |-> TRUE, n |-> 2])
    [] name = "logger.yml" ->
         (KEnabled :> TRUE) @@ (KURL :> "://sink")
    [] name = "logger.json" ->
         (KLevel :> "warning") @@ (KRetries :> [int |-> FALSE, n |-> 0])
    [] OTHER ->
         (KLevel :> "trace") @@ (KEnabled :> TRUE)
           @@ (KRetries :> [int |-> TRUE, n |-> 3])
EnvVars ==
  { [name |-> UnderscoreEnvName(KLevel), val |-> "WARN"],
    [name |-> UnderscoreEnvName(KLevel), val |-> "loud"],
    [name |-> UnderscoreEnvName(KFormat), val |-> "json"],
    [name |-> UnderscoreEnvName(KEnabled), val |-> TRUE],
    [name |-> <<"LOGGER", "_", "ELASTICSEARCH", ".", "ENABLED">>,
     val |-> TRUE],
    [name |-> UnderscoreEnvName(KURL), val |-> "://sink"],
    [name |-> UnderscoreEnvName(KRetries),
     val |-> [int |-> TRUE, n |-> 3]],
    [name |-> <<"ELASTIC", "_", "RETRIES">>, val |-> [int |-> TRUE, n |-> 3]],
    [name |-> <<"ELASTIC", "_", "RETRIES">>,
     val |-> [int |-> FALSE, n |-> 0]] }
Envs == {env \in UpTo2(EnvVars) :
           \A e \in env, g \in env : e.name = g.name => e = g}

\* one run reads at most two things: two files, a file and a variable, or
\* two variables
LoadInputs(cwd) ==
  {[path |-> p, cwd |-> cwd, fs |-> fs, env |-> env] :
     p \in CfgPaths,
     fs \in {x \in FileSystems(cwd) : Cardinality(x) < 2},
     env \in {x \in Envs : Cardinality(x) < 2}}
  \cup {[path |-> p, cwd |-> cwd, fs |-> fs, env |-> {}] :
     p \in CfgPaths, fs \in FileSystems(cwd)}
  \cup {[path |-> p, cwd |-> cwd, fs |-> {}, env |-> env] :
     p \in CfgPaths, env \in Envs}

\* stderr lines of Setup
NoFileDiag == "logger: no configuration file found"
ClientDiag == "logger: failed to create elasticsearch client"
DecodeErr  == "failed to decode logger config"
ClientErr  == "failed to create elasticsearch client"

InitCfg ==
  /\ pkg \in Packages
  /\ pc = "running"
  /\ Log = NoLogger
  /\ lastSetup = NoSetup
  /\ entry = IdleEntry
  /\ \E cwd \in 0..MaxDepth :
       \E in \in LoadInputs(cwd) : load = [done |-> FALSE, in |-> in]
  /\ prog = NoProg
  /\ other = IdleEntry
  /\ pay = NoPay

\* Setup(configPath) as a whole: the configuration is read and resolved
\* (lines 44-98), decoded and turned into a logger (lines 100-154)
RunSetup(in) ==
  LET ld   == IF pkg = "logger" THEN LoadConfig(in.path, in.cwd, in.fs)
              ELSE LoadConfigV1(in.path, in.cwd, in.fs)
      file == IF ld.source = NoFile THEN <<>> ELSE ContentOf(ld.source.name)
      raw  == IF pkg = "logger"
              THEN ResolveAll(in.env, file, Defaults, BoundEnvNames)
              ELSE ResolveAll(in.env, file, DefaultsV1, BoundEnvNamesV1)
      r    == SetupOf(raw)
  IN [source |-> ld.source, raw |-> raw, err |-> r.err,
      clientErr |-> r.clientErr, log |-> r.log,
      error |-> IF ~r.err THEN "nil"
                ELSE IF r.clientErr THEN ClientErr ELSE DecodeErr,
      stderr |-> (IF ld.warn THEN <<NoFileDiag>> ELSE <<>>)
                 \o (IF r.clientErr /\ ~r.err THEN <<ClientDiag>> ELSE <<>>)]

\* Setup called with the inputs of this run
SetupFromFiles ==
  /\ pc = "running"
  /\ load # NoLoad /\ ~load.done
  /\ LET r == RunSetup(load.in) IN
       /\ Log' = IF r.err THEN Log ELSE r.log
       /\ lastSetup' = [called |-> TRUE, err |-> r.err,
                        clientErr |-> r.clientErr]
       /\ load' = [done |-> TRUE, in |-> load.in, must |-> FALSE, res |-> r]
  /\ UNCHANGED <<pkg, pc, entry, prog, other, pay>>

\* MustSetup called with the inputs of this run
MustSetupFromFiles ==
  /\ pc = "running"
  /\ load # NoLoad /\ ~load.done
  /\ LET r == RunSetup(load.in) IN
       /\ Log' = IF r.err THEN Log ELSE r.log
       /\ lastSetup' = [called |-> TRUE, err |-> r.err,
                        clientErr |-> r.clientErr]
       /\ load' = [done |-> TRUE, in |-> load.in, must |-> TRUE, res |-> r]
       /\ pc' = IF r.err THEN "exited" ELSE pc
  /\ UNCHANGED <<pkg, entry, prog, other, pay>>

NextCfg == SetupFromFiles \/ MustSetupFromFiles

SpecCfg == InitCfg /\ [][NextCfg]_vars

\* ------------------------------------------------------------ func main
Greeting == "Hello from Hydra!"
DummyEntry == "Dummy log entry: application initialized"

\* main calls MustSetup(""): no path, at most one file or one variable
MainInputs ==
  UNION {{in \in LoadInputs(cwd) :
            /\ in.path = ""
            /\ Cardinality(in.fs) + Cardinality(in.env) < 2} : cwd \in 0..2}

InitMain ==
  /\ pkg \in Packages
  /\ pc = "running"
  /\ Log = NoLogger
  /\ lastSetup = NoSetup
  /\ entry = IdleEntry
  /\ \E in \in MainInputs : load = [done |-> FALSE, in |-> in]
  /\ prog = [at |-> "start", stdout |-> <<>>]
  /\ other = IdleEntry
  /\ pay = NoPay

\* logger.MustSetup("")
Main_MustSetup ==
  /\ pc = "running"
  /\ prog.at = "start"
  /\ LET r == RunSetup(load.in) IN
       /\ Log' = IF r.err THEN Log ELSE r.log
       /\ lastSetup' = [called |-> TRUE, err |-> r.err,
                        clientErr |-> r.clientErr]
       /\ load' = [done |-> TRUE, in |-> load.in, must |-> TRUE, res |-> r]
       /\ pc' = IF r.err THEN "exited" ELSE pc
       /\ prog' = [prog EXCEPT !.at = IF r.err THEN "exited" ELSE "setup"]
  /\ UNCHANGED <<pkg, entry, other, pay>>

\* if logger.Log != nil { logger.Log.WithFields(...).Info(DummyEntry) }
Main_Info ==
  /\ pc = "running"
  /\ prog.at = "setup"
  /\ entry.phase = "idle"
  /\ IF Log = NoLogger
     THEN /\ prog' = [prog EXCEPT !.at = "logged"]
          /\ entry' = entry
     ELSE /\ prog' = [prog EXCEPT !.at = "logging"]
          /\ entry' = [IdleEntry EXCEPT
                 !.level = InfoLevel, !.kind = "plain",
                 !.phase = IF ~IsLevelEnabled(Log, InfoLevel) THEN "done"
                           ELSE IF /\ Len(Log.hooks) > 0
                                   /\ InfoLevel \in Levels(Log.hooks[1])
                                THEN "fire"
                           ELSE "fired"]
  /\ UNCHANGED <<pkg, pc, Log, lastSetup, load, other, pay>>

\* Info returns to main; the lines logrus wrote to os.Stdout are part of
\* the standard output of the program
Main_InfoReturn ==
  /\ pc = "running"
  /\ prog.at = "logging"
  /\ entry.phase = "done"
  /\ prog' = [at |-> "logged",
              stdout |-> IF entry.lines > 0
                         THEN Append(prog.stdout, DummyEntry)
                         ELSE prog.stdout]
  /\ entry' = IdleEntry
  /\ UNCHANGED <<pkg, pc, Log, lastSetup, load, other, pay>>

\* fmt.Println(Greeting()), and main returns
Main_Println ==
  /\ pc = "running"
  /\ prog.at = "logged"
  /\ prog' = [at |-> "end", stdout |-> Append(prog.stdout, Greeting)]
  /\ UNCHANGED <<pkg, pc, Log, lastSetup, entry, load, other, pay>>

NextMain ==
  \/ Main_MustSetup
  \/ Main_Info
  \/ Fire_Marshal
  \/ Fire_Index
  \/ Fire_LoopEnd
  \/ \E res \in Responses \cup {TransportError} : Fire_Result(res)
  \/ Fire_CheckCtx
  \/ Fire_Sleep
  \/ CtxTimeout
  \/ FireV1_Marshal
  \/ \E res \in Responses \cup {TransportError} : FireV1_Result(res)
  \/ Write
  \/ Main_InfoReturn
  \/ Main_Println

SpecMain == InitMain /\ [][NextMain]_vars

\* ------------------------------------------- two goroutines, one hook
\* configurations that give a logger with the hook attached
HookedConfigs ==
  {raw \in RawConfigs :
     /\ raw.enabled /\ NewClientOk(raw.url) /\ UnmarshalOk(raw)
     /\ raw.level = "info" /\ raw.format = "text" /\ raw.index = ""}
ConcConfigs == {raw \in HookedConfigs : raw.retries.n \in {0, 2}}

\* what the sink answers while two records are in delivery
ConcResponses ==
  {TransportError,
   [err |-> FALSE, status |-> 200, body |-> ""],
   [err |-> FALSE, status |-> 500, body |-> "{error}"]}

\* Setup has returned with the hook attached; two goroutines are about to
\* log through logger.Log.  entry is the record of the goroutine that
\* runs, other the record of the goroutine that waits.
InitConc ==
  /\ pkg = "logger"
  /\ pc = "running"
  /\ \E raw \in ConcConfigs : Log = Setup(raw).log
  /\ lastSetup = [called |-> TRUE, err |-> FALSE, clientErr |-> FALSE]
  /\ entry = IdleEntry
  /\ load = NoLoad
  /\ prog = NoProg
  /\ other = IdleEntry
  /\ pay = NoPay

\* the scheduler lets the other goroutine run
Switch ==
  /\ pc = "running"
  /\ entry # other
  /\ entry' = other
  /\ other' = entry
  /\ UNCHANGED <<pkg, pc, Log, lastSetup, load, prog, pay>>

NextConc ==
  \/ Emit(InfoLevel, "plain")
  \/ Fire_Marshal
  \/ Fire_Index
  \/ Fire_LoopEnd
  \/ \E res \in ConcResponses : Fire_Result(res)
  \/ Fire_CheckCtx
  \/ Fire_Sleep
  \/ CtxTimeout
  \/ Write
  \/ Return
  \/ Switch

SpecConc == InitConc /\ [][NextConc]_vars

\* ------------------------------------------- one record, fair scheduling
InitLive ==
  /\ pkg = "logger"
  /\ pc = "running"
  /\ \E raw \in HookedConfigs : Log = Setup(raw).log
  /\ lastSetup = [called |-> TRUE, err |-> FALSE, clientErr |-> FALSE]
  /\ entry = IdleEntry
  /\ load = NoLoad
  /\ prog = NoProg
  /\ other = IdleEntry
  /\ pay = NoPay

NextLive ==
  \/ \E kind \in DataKinds : Emit(InfoLevel, kind)
  \/ Fire_Marshal
  \/ Fire_Index
  \/ Fire_LoopEnd
  \/ \E res \in Responses \cup {TransportError} : Fire_Result(res)
  \/ Fire_CheckCtx
  \/ Fire_Sleep
  \/ CtxTimeout
  \/ Write
  \/ Return

\* the goroutine inside Fire keeps running, and every request returns
LiveFairness ==
  /\ WF_vars(Fire_Marshal)
  /\ WF_vars(Fire_Index)
  /\ WF_vars(Fire_LoopEnd)
  /\ WF_vars(\E res \in Responses \cup {TransportError} : Fire_Result(res))
  /\ WF_vars(Fire_CheckCtx)
  /\ WF_vars(Fire_Sleep)

SpecLive == InitLive /\ [][NextLive]_vars /\ LiveFairness

\* ------------------------------------------------------------ the payload
\* a record: the caller's fields, the time, the message, the level
CallerKeys == {"service", "message", "level", "@timestamp", "timestamp",
               "time"}
Str(s) == [str |-> s]
Times == [sec : {0, 1}, nsec : {0, 5}, zone : {"Z", "+02:00"}]
Records ==
  UNION {[data : [keys -> {Str("hydra")}], time : Times,
          msg : {DummyEntry}, level : AllLevels] : keys \in SUBSET CallerKeys}

\* entry.Time.Format(time.RFC3339): seconds and zone offset, no fraction
FormatRFC3339(t) == [rfc3339 |-> [sec |-> t.sec, zone |-> t.zone]]

\* entry.Level.String()
LevelString(l) ==
  CASE l = 0 -> "panic"
    [] l = 1 -> "fatal"
    [] l = 2 -> "error"
    [] l = 3 -> "warning"
    [] l = 4 -> "info"
    [] l = 5 -> "debug"
    [] l = 6 -> "trace"

\* logger/logger.go Fire, lines 167-175
Payload(rec) ==
  [k \in DOMAIN rec.data \cup {"@timestamp", "message", "level", "timestamp"}
     |-> CASE k = "@timestamp" -> FormatRFC3339(rec.time)
           [] k = "message"    -> Str(rec.msg)
           [] k = "level"      -> Str(LevelString(rec.level))
           [] k = "timestamp"  -> FormatRFC3339(rec.time)
           [] OTHER            -> rec.data[k]]

\* src/logger/logger.go Fire, lines 116-122
PayloadV1(rec) ==
  [k \in DOMAIN rec.data \cup {"message", "level", "time"}
     |-> CASE k = "message" -> Str(rec.msg)
           [] k = "level"   -> Str(LevelString(rec.level))
           [] k = "time"    -> FormatRFC3339(rec.time)
           [] OTHER         -> rec.data[k]]

\* mutant of Fire_Data: the keys are written into entry.Data itself
Fire_Data_InPlace(rec) ==
  [entry |-> [rec EXCEPT !.data = Payload(rec)], data |-> Payload(rec)]

\* data := make(map[string]interface{}); for k, v := range entry.Data
\* { data[k] = v }; data[...] = ...: the keys are written into the new map.
\* entry is the record as Fire leaves it, data the map that is sent.
Fire_Data(rec) == [entry |-> rec, data |-> Payload(rec)]

\* src/logger/logger.go Fire, lines 116-122: the same copy
Fire_DataV1(rec) == [entry |-> rec, data |-> PayloadV1(rec)]

InitPayload ==
  /\ pkg \in Packages
  /\ pc = "running"
  /\ Log = NoLogger
  /\ lastSetup = NoSetup
  /\ entry = IdleEntry
  /\ load = NoLoad
  /\ prog = NoProg
  /\ other = IdleEntry
  /\ \E rec \in Records : pay = [done |-> FALSE, rec |-> rec]

\* Fire builds the document it sends from the record
Fire_Payload ==
  /\ pc = "running"
  /\ ~pay.done
  /\ LET r == IF pkg = "logger" THEN Fire_Data(pay.rec)
              ELSE Fire_DataV1(pay.rec)
     IN pay' = [done |-> TRUE, rec |-> pay.rec, payload |-> r.data,
                after |-> r.entry]
  /\ UNCHANGED <<pkg, pc, Log, lastSetup, entry, load, prog, other>>

NextPayload == Fire_Payload

SpecPayload == InitPayload /\ [][NextPayload]_vars

\* ------------------------------------------------------------ properties
Finished     == entry.phase \in {"fired", "done"}
Done         == entry.phase = "done"
HookAttached == Log # NoLogger /\ Len(Log.hooks) > 0
Invoked      == entry.fired > 0
NCalls       == Len(entry.calls)
Is2xx(res)   == ~res.err /\ res.status \in 200..299
IsNon2xx(res) == ~res.err /\ res.status \notin 200..299
AllTransportErrors == \A k \in 1..Len(entry.outs) : entry.outs[k].err
All2xx       == \A k \in 1..Len(entry.outs) : Is2xx(entry.outs[k])
Encodable    == entry.kind = "plain"

\* C1: Fire returns no error to logrus for every record and every outcome
\* of the delivery (marshal failure, transport errors, non-2xx, 2xx,
\* timeout): no execution of Fire returns a non-nil error.
C1_FireNeverReturnsError == entry.ret # "err"

\* C2: with the hook of logger/logger.go, Retries = N >= 1, every attempt
\* failing with a transport error and the timeout not elapsing, a finished
\* sequence has made exactly N attempts and Fire has returned nil.
C2_ExactlyRetriesAttempts ==
  (/\ pkg = "logger" /\ Finished /\ Invoked /\ Encodable
   /\ Hook.Retries >= 1 /\ ~entry.expired /\ AllTransportErrors)
  => (NCalls = Hook.Retries /\ entry.ret = "nil")

C2_Witness ==
  /\ pkg = "logger" /\ Done /\ Invoked /\ Encodable
  /\ Hook.Retries = 3 /\ ~entry.expired /\ AllTransportErrors
  /\ NCalls = 3 /\ entry.ret = "nil"

\* C3: a response with a status outside 200..299 ends the sequence: it is
\* the answer to the last attempt made, Fire has returned nil, and stderr
\* holds a warning with that status and that body, whatever the retry
\* budget left.  Every attempt that was followed by another one had failed
\* with a transport error.
C3_Non2xxNotRetried ==
  pkg = "logger" =>
    /\ \A k \in 1..Len(entry.outs) :
         IsNon2xx(entry.outs[k]) =>
           /\ k = NCalls
           /\ Finished /\ entry.ret = "nil"
           /\ \E d \in 1..Len(entry.diags) :
                /\ entry.diags[d].msg = "ES responded with status"
                /\ entry.diags[d].status = entry.outs[k].status
                /\ entry.diags[d].body = entry.outs[k].body
    /\ \A k \in 1..Len(entry.outs) : k < NCalls => entry.outs[k].err

C3_Witness ==
  /\ pkg = "logger" /\ Done /\ Invoked
  /\ Hook.Retries = 3 /\ NCalls = 1
  /\ entry.outs = <<[err |-> FALSE, status |-> 500, body |-> "{error}"]>>

\* C4: with the hook attached and a sink that answers every request with
\* a 2xx status, exactly one index request is made for an admitted record,
\* whatever Retries is.
C4_OneRequestPerRecord ==
  (Invoked /\ Encodable /\ All2xx) =>
    /\ NCalls <= 1
    /\ Finished => NCalls = 1

C4_Witness ==
  /\ pkg = "logger" /\ Done /\ Invoked /\ Hook.Retries = 3
  /\ Len(entry.outs) = 1 /\ All2xx /\ NCalls = 1

\* C5 as stated: no attempt is started once the timeout has expired,
\* wherever in the sequence it expires.
C5_NoAttemptAfterExpiry ==
  pkg = "logger" => \A k \in 1..NCalls : ~entry.calls[k]

\* C5 amended: the expiry is looked at only after a failed attempt.  Once a
\* failed attempt has found the timeout expired no further attempt is
\* started; an expiry before that check (during the backoff wait) lets one
\* more attempt start, which is then the last one of the sequence.
C5_AbandonAfterCheck ==
  pkg = "logger" =>
    /\ \A k \in 1..Len(entry.checks) : entry.checks[k] => NCalls = k
    /\ \A k \in 1..NCalls : entry.calls[k] => k = NCalls

C5_Witness ==
  /\ pkg = "logger" /\ Done /\ Invoked /\ Hook.Retries = 3
  /\ entry.calls = <<FALSE, TRUE>>
  /\ entry.checks = <<FALSE, TRUE>>

\* C6: Retries is the total number of attempts, at least 1: a record whose
\* payload serializes gets at most max(1, Retries) attempts and, once the
\* sequence is over, at least 1; with Retries = 1 exactly one.
C6_AttemptsWithinRetries ==
  (pkg = "logger" /\ Invoked /\ Encodable) =>
    /\ NCalls <= (IF Hook.Retries > 1 THEN Hook.Retries ELSE 1)
    /\ Finished => NCalls >= 1
    /\ (Finished /\ Hook.Retries = 1) => NCalls = 1

C6_Witness ==
  /\ pkg = "logger" /\ Done /\ Invoked /\ Encodable
  /\ Hook.Retries = 0 /\ NCalls = 1 /\ AllTransportErrors /\ ~entry.expired

\* C7 as stated: after a successful Setup the hook is attached if and only
\* if elasticsearch.enabled was true.
C7_AttachedIffEnabled ==
  (lastSetup.called /\ ~lastSetup.err) => (HookAttached <=> Log.enabled)

\* C7 amended: after a successful Setup the hook is attached if and only if
\* elasticsearch.enabled was true and the client could be constructed; no
\* step of a log emission changes the logger or its hooks.
C7_AttachedIffEnabledAndClient ==
  /\ []((lastSetup.called /\ ~lastSetup.err) =>
          (HookAttached <=> (Log.enabled /\ ~lastSetup.clientErr)))
  /\ [][(entry.phase # "idle" \/ entry'.phase # "idle") => Log' = Log]_vars

C7_Witness ==
  /\ pkg = "logger" /\ lastSetup.called /\ ~lastSetup.err
  /\ lastSetup.clientErr /\ Log.enabled /\ ~HookAttached
  /\ Done /\ entry.lines = 1

\* C8: a logger built with elasticsearch.enabled = false has no hook, and
\* no record emitted through it invokes Fire or makes a request.
C8_DisabledNoRequests ==
  (Log # NoLogger /\ ~Log.enabled) =>
    (~HookAttached /\ entry.fired = 0 /\ entry.calls = <<>>)

C8_Witness ==
  /\ Log # NoLogger /\ ~Log.enabled /\ Done
  /\ entry.level <= Log.level /\ entry.lines = 1 /\ entry.calls = <<>>

\* C9 as stated: a record below the configured level gives no console line
\* and no hook invocation; a record at or above it gives exactly one
\* console line and, the hook being attached, exactly one invocation.
C9_LevelGate ==
  Done =>
    /\ entry.level > Log.level =>
         (entry.lines = 0 /\ entry.fired = 0 /\ entry.calls = <<>>)
    /\ entry.level <= Log.level =>
         (entry.lines = 1 /\ (HookAttached => entry.fired = 1))

\* C9 amended: as stated, except that an admitted record gets no console
\* line when the JSON formatter cannot encode one of its fields.
C9_LevelGateFormatted ==
  /\ entry.lines <= 1 /\ entry.fired <= 1
  /\ Done =>
      /\ entry.level > Log.level =>
           (entry.lines = 0 /\ entry.fired = 0 /\ entry.calls = <<>>)
      /\ entry.level <= Log.level =>
           /\ entry.lines = (IF Log.formatter = "json" /\ entry.kind = "chan"
                             THEN 0 ELSE 1)
           /\ entry.fired = Len(Log.hooks)

C9_Witness ==
  /\ Done /\ HookAttached /\ Log.level = 3
  /\ entry.level = 4 /\ entry.lines = 0 /\ entry.fired = 0

\* C10 as stated: every admitted record that went through the hook gets
\* exactly one console line, whatever the outcome of its delivery.
C10_ConsoleAlwaysWritten ==
  (Done /\ Invoked) => entry.lines = 1

\* C10 amended: whether the console line of an admitted record is written
\* depends on the formatter alone (always with text; with json unless a
\* field has no JSON encoding), never on the outcome of the delivery.
C10_ConsoleIndependentOfDelivery ==
  (Done /\ Invoked) =>
    entry.lines = (IF Log.formatter = "json" /\ entry.kind = "chan"
                   THEN 0 ELSE 1)

C10_Witness ==
  /\ Done /\ Invoked /\ Encodable /\ NCalls >= 2 /\ AllTransportErrors
  /\ Log.formatter = "json" /\ entry.lines = 1

\* ------------------------------------- properties of configuration loading
LoadDone == load.done
In       == load.in
Res      == load.res
Decodes  == UnmarshalOk(Res.raw)
Warned(diag) == \E k \in 1..Len(Res.stderr) : Res.stderr[k] = diag
Range(seq) == {seq[k] : k \in 1..Len(seq)}
Field(raw, k) ==
  CASE k = KLevel   -> raw.level
    [] k = KFormat  -> raw.format
    [] k = KEnabled -> raw.enabled
    [] k = KURL     -> raw.url
    [] k = KIndex   -> raw.index
    [] k = KRetries -> raw.retries

\* C11: when elasticsearch.enabled resolves to true and the client cannot
\* be constructed, Setup returns no error, writes the client warning to
\* stderr, adds no hook and installs a logger that writes to the console;
\* the process goes on.
C11_ClientFailureNonFatal ==
  (LoadDone /\ Decodes /\ Res.raw.enabled /\ ~NewClientOk(Res.raw.url)) =>
    /\ ~Res.err
    /\ Warned(ClientDiag)
    /\ Log # NoLogger /\ Log.hooks = <<>> /\ Log.out = "stdout"
    /\ pc = "running"

\* C12: with logger/logger.go, Setup returns an error exactly when the
\* resolved configuration does not decode, and the process exits exactly
\* when that happens under MustSetup; a missing file, a level that does not
\* parse and a client that cannot be constructed leave Setup without error
\* and the process running.
C12_DecodeFailureOnlyFatal ==
  (pkg = "logger" /\ LoadDone) =>
    /\ Res.err <=> ~Decodes
    /\ pc = "exited" <=> (load.must /\ ~Decodes)
    /\ pc \in {"running", "exited"}

C12_Witness ==
  /\ pkg = "logger" /\ LoadDone /\ load.must
  /\ ~Decodes /\ Res.err /\ pc = "exited"

\* the files Setup("") looks at from the working directory: logger.<ext> in
\* the working directory, the three candidates in the working directory
\* and its ancestors, six directories at most, the root excluded
Searched(in, f) ==
  \/ f.dir = in.cwd /\ f.name \in Range(PrimaryNames)
  \/ /\ f.name \in Range(Candidates)
     /\ f.dir >= 1 /\ f.dir <= in.cwd /\ f.dir > in.cwd - SearchLevels
NoFileInSearchPath ==
  /\ pkg = "logger" /\ LoadDone /\ In.path = ""
  /\ \A f \in In.fs : ~Searched(In, f)

\* C13 as stated: without a path and without a file in the search path
\* Setup warns, returns no error, installs a logger and nothing exits.
C13_NoFileNoError ==
  NoFileInSearchPath =>
    /\ Res.source = NoFile /\ Warned(NoFileDiag)
    /\ ~Res.err /\ Log # NoLogger /\ pc = "running"

\* C13 amended: without a path and without a file in the search path no
\* file is loaded, the warning is written and the settings are resolved
\* from the environment and the defaults alone; if they decode Setup
\* returns no error and installs the logger built from them, otherwise it
\* returns the decode error, installs nothing, and MustSetup exits.
C13_NoFileEnvAndDefaults ==
  NoFileInSearchPath =>
    /\ Res.source = NoFile /\ Warned(NoFileDiag)
    /\ Res.raw = ResolveAll(In.env, <<>>, Defaults, BoundEnvNames)
    /\ Decodes =>
         /\ ~Res.err /\ pc = "running"
         /\ Log # NoLogger /\ Log.enabled = Res.raw.enabled
    /\ ~Decodes =>
         /\ Res.err /\ Log = NoLogger
         /\ pc = "exited" <=> load.must

C13_Witness ==
  /\ NoFileInSearchPath /\ In.fs # {}
  /\ HasEnv(In.env, UnderscoreEnvName(KLevel))
  /\ Warned(NoFileDiag) /\ ~Res.err
  /\ Log # NoLogger /\ Log.level = 3

\* C14: when Setup is given a path, the values come from that file or from
\* no file at all: no other file is loaded, also when the file named is
\* missing or does not parse.
C14_ExplicitPathStrict ==
  (pkg = "logger" /\ LoadDone /\ In.path # "") =>
    Res.source \in {NoFile, [dir |-> In.cwd, name |-> In.path]}

\* C15: for every key K, the nested ones included, a variable named
\* LOGGER_<K in upper case, dots as underscores> that is set gives K its
\* resolved value, whatever the file and the defaults hold.
C15_EnvOverridesEveryKey ==
  (pkg = "logger" /\ LoadDone) =>
    \A k \in Keys :
      HasEnv(In.env, UnderscoreEnvName(k)) =>
        Field(Res.raw, k) = EnvValue(In.env, UnderscoreEnvName(k))

\* the level names of the configuration reference
LevelNames == {"trace", "debug", "info", "warn", "error", "fatal", "panic"}

\* C16 as stated: a level value that is none of the seven names makes Setup
\* succeed with level info.
C16_UnparseableLevelIsInfo ==
  (pkg = "logger" /\ LoadDone /\ Res.raw.level \notin LevelNames) =>
    (~Res.err /\ Log # NoLogger /\ Log.level = InfoLevel)

\* C16 amended: a level value that, letter case ignored, is none of the
\* seven names nor "warning" gives level info whenever the configuration
\* decodes; Setup then returns no error.
C16_UnknownLevelIsInfo ==
  (/\ pkg = "logger" /\ LoadDone /\ Decodes
   /\ ToLower(Res.raw.level) \notin LevelNames \cup {"warning"}) =>
    (~Res.err /\ Log # NoLogger /\ Log.level = InfoLevel)

C16_Witness ==
  /\ pkg = "logger" /\ LoadDone /\ Decodes
  /\ Res.raw.level = "verbose" /\ Res.source # NoFile
  /\ ~Res.err /\ Log # NoLogger /\ Log.level = InfoLevel

\* ------------------------------------------------- properties of func main
\* C17: when main has returned, standard output holds the greeting line
\* and nothing else: neither the setup nor the dummy entry wrote to it.
C17_OnlyGreetingOnStdout ==
  prog.at = "end" => prog.stdout = <<Greeting>>

\* ------------------------------------------ properties of concurrent use
InFire(e) == e.fired > 0
Over(e)   == e.phase \in {"fired", "done"}
\* attempt k of record e is its last one, by what e itself has seen
StopsAt(e, k) ==
  \/ k = Attempts(Hook.Retries)
  \/ k <= Len(e.outs) /\ ~e.outs[k].err
  \/ k <= Len(e.checks) /\ e.checks[k]
OwnSequence(e) ==
  /\ ~InFire(e) => (e.calls = <<>> /\ e.i = 0 /\ ~e.expired)
  /\ InFire(e) =>
       /\ e.i = e.sleeps /\ e.i <= Len(e.outs)
       /\ Len(e.calls) \in {Len(e.outs), Len(e.outs) + 1}
       /\ \A k \in 1..Len(e.calls) : k < Len(e.calls) => ~StopsAt(e, k)
       /\ Over(e) => (Len(e.calls) >= 1 /\ StopsAt(e, Len(e.calls)))

\* C18: with two records in delivery through the same hook, in every
\* interleaving each record has its own counter and its own timeout: the
\* attempts made for a record are decided by the outcomes of its own
\* attempts and its own expiry checks; a step of one goroutine leaves the
\* record of the other alone, and no step writes the logger or its hook.
C18_ConcurrentUseSafe ==
  /\ [](OwnSequence(entry) /\ OwnSequence(other))
  /\ [][/\ Log' = Log
        /\ \/ other' = other
           \/ other' = entry /\ entry' = other]_vars

C18_Witness ==
  /\ Hook.Retries = 2
  /\ entry.phase = "inflight" /\ Len(entry.calls) = 2 /\ entry.expired
  /\ other.phase = "sleep" /\ Len(other.calls) = 1 /\ ~other.expired

\* ----------------------------------------------- properties of the payload
Canonical == {"@timestamp", "message", "level", "timestamp"}

\* C19: the payload holds the caller's fields and the four keys
\* @timestamp, message, level, timestamp; the four carry the record's time
\* in RFC 3339, its message and its level name, also when the caller has a
\* field of that name; every other caller field is unchanged.
C19_PayloadCanonicalKeys ==
  pay.done =>
    /\ DOMAIN pay.payload = DOMAIN pay.rec.data \cup Canonical
    /\ pay.payload["@timestamp"] = FormatRFC3339(pay.rec.time)
    /\ pay.payload["timestamp"] = FormatRFC3339(pay.rec.time)
    /\ pay.payload["message"] = Str(pay.rec.msg)
    /\ pay.payload["level"] = Str(LevelString(pay.rec.level))
    /\ \A k \in DOMAIN pay.rec.data \ Canonical :
         pay.payload[k] = pay.rec.data[k]

\* ------------------------------------------------ properties of fair runs
\* C20: whatever the outcomes of the attempts and whatever Retries is, a
\* record handed to Fire leads to Fire having returned nil, provided the
\* goroutine keeps running and every request returns.
C20_FireTerminates ==
  (entry.phase = "fire") ~> (entry.phase = "fired" /\ entry.ret = "nil")

C20_Witness ==
  /\ Done /\ Invoked /\ Hook.Retries = 3 /\ entry.ret = "nil"
  /\ Len(entry.outs) = 2
  /\ entry.outs[1].err /\ IsNon2xx(entry.outs[2])

\* ------------------------------------- properties of the record after Fire
\* C21: after Fire the record is as the caller built it: its fields, its
\* message, its level and its time are those it had before, also when the
\* payload carries other values under the same keys.
C21_RecordNotMutated ==
  pay.done => pay.after = pay.rec

C21_Witness ==
  /\ pkg = "logger" /\ pay.done
  /\ "message" \in DOMAIN pay.rec.data
  /\ pay.payload["message"] # pay.rec.data["message"]
  /\ pay.after = pay.rec

\* ------------------------------------------- properties of the backoff wait
\* C22: the backoff wait of logger/logger.go happens exactly between two
\* attempts: while an attempt is under way or has just failed, and when
\* the sequence is over, the waits made are one fewer than the attempts
\* made; so no wait follows the last attempt.
C22_BackoffOnlyBetweenAttempts ==
  (pkg = "logger" /\ Invoked /\ Encodable) =>
    /\ entry.phase \in {"inflight", "failed"} => entry.sleeps = NCalls - 1
    /\ Finished => entry.sleeps = NCalls - 1

\* ------------------------------------ properties of a failed serialization
\* C25: when the payload of a record cannot be serialized, Fire makes no
\* request for it, writes the marshal diagnostic to stderr and returns nil.
C25_MarshalFailureNoRequest ==
  (Invoked /\ ~Encodable /\ Finished) =>
    /\ entry.calls = <<>>
    /\ \E d \in 1..Len(entry.diags) : entry.diags[d] = MarshalDiag
    /\ entry.ret = "nil"

\* ------------------------------------------ properties of the fallback search
PrimaryFailed == ReadInConfig(In.path, In.cwd, In.fs) = NoFile
\* place of a candidate name in the order the search tries them
CandidateRank(name) ==
  CASE name = "logger.example.yaml" -> 1
    [] name = "logger.yaml"         -> 2
    [] name = "logger.yml"          -> 3
    [] OTHER                        -> 0
\* f is a candidate the search may accept: one of the three names, in one
\* of the six directories from the working directory upwards, below the
\* root, and it parses
Acceptable(f) ==
  /\ CandidateRank(f.name) > 0
  /\ f.dir <= In.cwd /\ f.dir > In.cwd - 6 /\ f.dir >= 1
  /\ f.ok
\* the search comes to f before it comes to g
TriedBefore(f, g) ==
  \/ f.dir > g.dir
  \/ f.dir = g.dir /\ CandidateRank(f.name) < CandidateRank(g.name)

\* C23: when the primary read of logger/logger.go fails, the file used is
\* the acceptable candidate the search comes to first (nearest directory,
\* then logger.example.yaml, logger.yaml, logger.yml); a candidate that
\* does not parse is passed over; no file is used exactly when there is no
\* acceptable candidate.
C23_FallbackSearchOrder ==
  (pkg = "logger" /\ LoadDone /\ PrimaryFailed) =>
    /\ Res.source = NoFile <=> ~(\E f \in In.fs : Acceptable(f))
    /\ Res.source # NoFile =>
         \E f \in In.fs :
           /\ Acceptable(f)
           /\ Res.source = [dir |-> f.dir, name |-> f.name]
           /\ \A g \in In.fs : Acceptable(g) => ~TriedBefore(g, f)

C23_Witness ==
  /\ pkg = "logger" /\ LoadDone /\ PrimaryFailed /\ In.path = ""
  /\ \E g \in In.fs : ~g.ok /\ g.dir = In.cwd /\ g.name = "logger.yaml"
  /\ Res.source = [dir |-> In.cwd - 5, name |-> "logger.yml"]

\* ----------------------------------------- properties of the Log variable
FullyConfigured(logger) ==
  /\ logger.level \in AllLevels
  /\ logger.formatter \in {"text", "json"}
  /\ logger.out = "stdout"
  /\ Len(logger.hooks) > 0 => logger.enabled

\* C24: Log is nil or a fully configured logger, and it changes only in a
\* step that is a Setup call returning no error: a Setup call that returns
\* an error leaves Log as it was.
C24_LogSetOnlyOnSuccess ==
  /\ [](Log = NoLogger \/ FullyConfigured(Log))
  /\ [][Log' # Log => (lastSetup'.called /\ ~lastSetup'.err)]_vars

C24_Witness ==
  /\ lastSetup.called /\ lastSetup.err /\ lastSetup.clientErr
  /\ Log # NoLogger /\ FullyConfigured(Log)

====
